---- MODULE Spec2Model ----
(***************************************************************************)
(* Indexing kernels of ATen's MPS backend (aten/src/ATen/mps/IndexKernels.h)*)
(*                                                                         *)
(* The Metal source defines get_idx, the gather kernel index_select, the   *)
(* scatter kernel index_put, kernel_index_offsets and the two accumulating *)
(* scatters index_put_accumulate_native_dtypes (atomic_fetch_add_explicit) *)
(* and atomic_index_put_accumulate (atomic_fetch_add_relaxed, a weak       *)
(* compare-exchange loop over the float's bit pattern).                    *)
(*                                                                         *)
(* Machine integers are little-endian sequences of bytes, so that uint     *)
(* (4 bytes) wraps modulo 2^32 and int64_t / pointers (8 bytes) modulo     *)
(* 2^64 exactly as in the shader.                                          *)
(***************************************************************************)
EXTENDS Integers, Naturals, Sequences, FiniteSets, TLC

VARIABLES
    kernel,          \* host_name family of the launched kernel
    grid,            \* the thread_position_in_grid values of the launch
    iter_shape,      \* buffer(7): constant uint *
    num_dimensions,  \* buffer(8)
    strides,         \* buffer(9): constant packed_uint3 *
    num_indices,     \* buffer(6)
    indexArray,      \* buffer(0): indexAB[i].indexArray, int64_t arrays
    index_sizes,     \* buffer(1)
    index_strides,   \* buffer(2)
    inputData,       \* buffer(4): byte address -> element
    outputData,      \* buffer(5): byte address -> element
    data_offsets,    \* buffer(1) of kernel_index_offsets: device uint3 *
    pc,              \* per thread: position in the kernel body
    offsets,         \* per thread: uint3 offsets
    index,           \* per thread: the values of `index` after the wraparound
    offset,          \* per thread: int64_t offset
    out,             \* per thread: byte offset of `out` from outputData
    in,              \* per thread: byte offset of `in` from inputData
    val,             \* per thread: the element read through `in`
    dim,             \* per thread: loop counter of kernel_index_offsets
    idx,             \* per thread: uint32_t idx of kernel_index_offsets
    expected,        \* per thread: uint expected of atomic_fetch_add_relaxed
    updated,         \* per thread: T updated of atomic_fetch_add_relaxed
    hist             \* history (not program state): what the threads did

launch == <<kernel, grid, iter_shape, num_dimensions, strides, num_indices,
            indexArray, index_sizes, index_strides>>
locals == <<pc, offsets, index, offset, out, in, val, dim, idx, expected, updated>>
vars == <<launch, inputData, outputData, data_offsets, locals, hist>>

(***************************************************************************)
(* Machine words                                                           *)
(***************************************************************************)
SizeofUint == 4
SizeofInt64 == 8
\* wide enough that no modelled sum or product wraps
WideBytes == SizeofInt64 + SizeofUint

\* the element of a one-element set: `The({F(x, y) : x \in {a}, y \in {b}})`
\* is F(a, b) with each operand evaluated to a value once
The(S) == CHOOSE x \in S : TRUE

RECURSIVE Digits(_, _)
\* n-byte two's complement of the integer k (floor division sign-extends).
Digits(k, n) == IF n = 0 THEN <<>> ELSE <<k % 256>> \o Digits(k \div 256, n - 1)

RECURSIVE AddFrom(_, _, _, _)
AddFrom(a, b, i, c) ==
    IF i > Len(a) THEN <<>>
    ELSE LET v == a[i] + b[i] + c
         IN  <<v % 256>> \o AddFrom(a, b, i + 1, v \div 256)

\* a + b modulo 2^(8n) on n-byte words
WAdd(a, b) == The({AddFrom(x, y, 1, 0) : x \in {a}, y \in {b}})

RECURSIVE ConvSum(_, _, _, _)
ConvSum(a, b, k, i) ==
    IF i > k THEN 0 ELSE a[i] * b[k + 1 - i] + ConvSum(a, b, k, i + 1)

RECURSIVE MulFrom(_, _, _, _)
MulFrom(a, b, k, c) ==
    IF k > Len(a) THEN <<>>
    ELSE LET v == ConvSum(a, b, k, 1) + c
         IN  <<v % 256>> \o MulFrom(a, b, k + 1, v \div 256)

\* a * b modulo 2^(8n) on n-byte words
WMul(a, b) == The({MulFrom(x, y, 1, 0) : x \in {a}, y \in {b}})

IsNeg(w) == w[Len(w)] >= 128

RECURSIVE Fill(_, _)
Fill(byte, n) == IF n <= 0 THEN <<>> ELSE <<byte>> \o Fill(byte, n - 1)

\* unsigned widening (uint -> 64-bit pointer offset) and signed widening
ZExt(w, n) == The({x \o Fill(0, n - Len(x)) : x \in {w}})
SExt(w, n) == The({x \o Fill(IF IsNeg(x) THEN 255 ELSE 0, n - Len(x)) : x \in {w}})
Trunc(w, n) == SubSeq(w, 1, n)

RECURSIVE UVal(_)
\* the unsigned value of a word (used where it is below 2^31)
UVal(w) == IF w = <<>> THEN 0 ELSE w[1] + 256 * UVal(Tail(w))

RECURSIVE UValNot(_)
\* the unsigned value of the bitwise complement of a word
UValNot(w) == IF w = <<>> THEN 0 ELSE (255 - w[1]) + 256 * UValNot(Tail(w))

\* the signed value of a word
SVal(w) == IF IsNeg(w) THEN -(UValNot(w) + 1) ELSE UVal(w)

RECURSIVE SeqOf(_, _, _)
\* the sequence f[i], ..., f[n]
SeqOf(f, i, n) == IF i > n THEN <<>> ELSE <<f[i]>> \o SeqOf(f, i + 1, n)

U32(k) == The({Digits(x, SizeofUint) : x \in {k}})
I64(k) == The({Digits(x, SizeofInt64) : x \in {k}})

\* uint3 arithmetic is component-wise
Uint3Zero == <<U32(0), U32(0), U32(0)>>
Uint3Add(u, v) ==
    The({<<WAdd(x[1], y[1]), WAdd(x[2], y[2]), WAdd(x[3], y[3])>> : x \in {u}, y \in {v}})
Uint3Scale(r, v) ==
    The({<<WMul(x, y[1]), WMul(x, y[2]), WMul(x, y[3])>> : x \in {r}, y \in {v}})

(***************************************************************************)
(* get_idx                                                                 *)
(***************************************************************************)
RECURSIVE get_idx_loop_noadvance(_, _, _, _, _, _)
\* get_idx without `idx /= iter_shape[dim]`
get_idx_loop_noadvance(d, i, acc, shape, ndims, strd) ==
    IF d > ndims THEN acc
    ELSE LET remainder == i % shape[d]
         IN  get_idx_loop_noadvance(d + 1, i,
                          Uint3Add(acc, Uint3Scale(U32(remainder), strd[d])),
                          shape, ndims, strd)

get_idx_noadvance(tid, shape, ndims, strd) ==
    get_idx_loop_noadvance(1, tid, Uint3Zero, shape, ndims, strd)

RECURSIVE get_idx_loop(_, _, _, _, _, _)
get_idx_loop(d, i, acc, shape, ndims, strd) ==
    IF d > ndims THEN acc
    ELSE LET remainder == i % shape[d]
         IN  get_idx_loop(d + 1, i \div shape[d],
                          Uint3Add(acc, Uint3Scale(U32(remainder), strd[d])),
                          shape, ndims, strd)

\* tid and iter_shape are uint values small enough to be plain integers; the
\* accumulated data_offsets are uint words.
get_idx(tid, shape, ndims, strd) ==
    get_idx_loop(1, tid, Uint3Zero, shape, ndims, strd)

(***************************************************************************)
(* Indirect index resolution: the loop shared, line for line, by           *)
(* index_select, index_put, index_put_accumulate_native_dtypes and         *)
(* atomic_index_put_accumulate.                                            *)
(***************************************************************************)
\* int64_t index = indexArray[offsets.z / sizeof(int64_t)];
index_read(i, z) == indexArray[i][UVal(z) \div SizeofInt64 + 1]

\* the wraparound taken for zero as well (index <= 0)
index_wrap_nonpositive(raw, size) ==
    IF IsNeg(raw) \/ raw = I64(0) THEN WAdd(raw, size) ELSE raw

\* if (index < 0) { index += index_sizes[i]; }
index_wrap(raw, size) == IF IsNeg(raw) THEN WAdd(raw, size) ELSE raw

\* the values of `index` that are multiplied by index_strides[i]
index_values(z) ==
    SeqOf([i \in 1..num_indices |-> index_wrap(index_read(i, z), index_sizes[i])],
          1, num_indices)

RECURSIVE index_offset_loop(_, _, _)
index_offset_loop(i, acc, ixs) ==
    IF i > num_indices THEN acc
    ELSE index_offset_loop(i + 1, WAdd(acc, WMul(ixs[i], index_strides[i])), ixs)

\* the offset kept in a 32-bit integer
index_offset_narrow(ixs) ==
    SExt(Trunc(index_offset_loop(1, I64(0), ixs), SizeofUint), SizeofInt64)

\* int64_t offset = 0; for (...) offset += index * index_strides[i];
index_offset(ixs) == index_offset_loop(1, I64(0), ixs)

\* the gather's write with the indirect offset added, as in the scatters
index_select_out_indirect(offs, off) == WAdd(ZExt(offs[1], SizeofInt64), off)

\* device T * out = (device T*)((device char*)outputData + offsets.x);
\* constant T * in = (constant T*)((constant char*)inputData + offsets.y + offset);
index_select_out(offs, off) == ZExt(offs[1], SizeofInt64)
\* the gather's read without the indirect offset
index_select_in_direct(offs, off) == ZExt(offs[2], SizeofInt64)
index_select_in(offs, off) == WAdd(ZExt(offs[2], SizeofInt64), off)

\* device T * out = (device T*)((device char*)outputData + offsets.x + offset);
\* constant T * in = (constant T*)((constant char*)inputData + offsets.y);
\* the scatter's write without the indirect offset
index_put_out_direct(offs, off) == ZExt(offs[1], SizeofInt64)
index_put_out(offs, off) == WAdd(ZExt(offs[1], SizeofInt64), off)
index_put_in(offs, off) == ZExt(offs[2], SizeofInt64)

native_accumulate_out(offs, off) == WAdd(ZExt(offs[1], SizeofInt64), off)
native_accumulate_in(offs, off) == ZExt(offs[2], SizeofInt64)

atomic_accumulate_out(offs, off) == WAdd(ZExt(offs[1], SizeofInt64), off)
atomic_accumulate_in(offs, off) == ZExt(offs[2], SizeofInt64)

Gather == "index_select"
Scatter == "index_put"
NativeAcc == "index_put_accumulate_native_dtypes"
AtomicAcc == "atomic_index_put_accumulate"
OffsetsKernel == "kernel_index_offsets"
IndexKernels == {Gather, Scatter, NativeAcc, AtomicAcc}

OutAddr(k, offs, off) ==
    CASE k = Gather    -> index_select_out(offs, off)
      [] k = Scatter   -> index_put_out(offs, off)
      [] k = NativeAcc -> native_accumulate_out(offs, off)
      [] k = AtomicAcc -> atomic_accumulate_out(offs, off)

InAddr(k, offs, off) ==
    CASE k = Gather    -> index_select_in(offs, off)
      [] k = Scatter   -> index_put_in(offs, off)
      [] k = NativeAcc -> native_accumulate_in(offs, off)
      [] k = AtomicAcc -> atomic_accumulate_in(offs, off)

\* The address computation every index kernel starts with, for thread t.
ThreadOffsets(t) == get_idx(t, iter_shape, num_dimensions, strides)
ThreadIndex(t) == index_values(ThreadOffsets(t)[3])
ThreadOffset(t) == index_offset(ThreadIndex(t))
ThreadOut(t) == OutAddr(kernel, ThreadOffsets(t), ThreadOffset(t))
ThreadIn(t) == InAddr(kernel, ThreadOffsets(t), ThreadOffset(t))

\* each local is computed once, from the locals before it
ResolveAddresses(t) ==
    \E offs \in {ThreadOffsets(t)} :
        \E ixs \in {index_values(offs[3])} :
            \E off \in {index_offset(ixs)} :
                /\ offsets' = [offsets EXCEPT ![t] = offs]
                /\ index' = [index EXCEPT ![t] = ixs]
                /\ offset' = [offset EXCEPT ![t] = off]
                /\ out' = [out EXCEPT ![t] = OutAddr(kernel, offs, off)]
                /\ in' = [in EXCEPT ![t] = InAddr(kernel, offs, off)]

(***************************************************************************)
(* Launch parameters                                                       *)
(***************************************************************************)
MaxRank == 2
MaxDim == 3
MaxThreads == 4
MaxIndices == 1
MaxIndexSize == 2

RECURSIVE Prod(_, _)
\* product of shape[1..n]
Prod(shape, n) == IF n = 0 THEN 1 ELSE shape[n] * Prod(shape, n - 1)

NumThreads(shape) == Prod(shape, Len(shape))

Shapes ==
    {s \in UNION {[1..r -> 1..MaxDim] : r \in 0..MaxRank} :
        NumThreads(s) <= MaxThreads}

Pow2_31 == <<0, 0, 0, 128>>
Pow2_32 == <<0, 0, 0, 0, 1, 0, 0, 0>>

\* One component of a stride table: "dense" is the contiguous layout of
\* elements of `unit` bytes, "zero" broadcasts, "huge" is 2^31 in every
\* dimension.
StrideOf(layout, unit, shape, d) ==
    CASE layout = "dense" -> U32(unit * Prod(shape, d - 1))
      [] layout = "zero"  -> U32(0)
      [] layout = "huge"  -> Pow2_31

StrideTable(lx, ly, lz, unit, shape) ==
    SeqOf([d \in 1..Len(shape) |-> <<StrideOf(lx, unit, shape, d),
                                     StrideOf(ly, unit, shape, d),
                                     StrideOf(lz, SizeofInt64, shape, d)>>],
          1, Len(shape))

\* An index array of `len` entries for an indexed dimension of size n: entry
\* j holds ((v + j) mod (2n + 2)) - n - 1, a value of [-n-1, n].
IndexPattern(v, n, len) ==
    SeqOf([j \in 1..len |-> I64(((v + j) % (2 * n + 2)) - n - 1)], 1, len)

NoLocals(g) ==
    /\ pc = [t \in g |-> "start"]
    /\ offsets = [t \in g |-> Uint3Zero]
    /\ index = [t \in g |-> <<>>]
    /\ offset = [t \in g |-> I64(0)]
    /\ out = [t \in g |-> I64(0)]
    /\ in = [t \in g |-> I64(0)]
    /\ val = [t \in g |-> IF kernel = NativeAcc THEN U32(0) ELSE 0]
    /\ dim = [t \in g |-> 0]
    /\ idx = [t \in g |-> 0]
    /\ expected = [t \in g |-> U32(0)]
    /\ updated = [t \in g |-> 0]

(***************************************************************************)
(* SpecResolve: the address computation of one thread of an index kernel,  *)
(* over launch parameters that include strides of 2^31 and 2^32 and index  *)
(* values on both sides of [-size, size).                                  *)
(***************************************************************************)
ResolveLayouts ==
    {<<"dense", "dense", "dense">>, <<"huge", "huge", "zero">>}

ResolveIndexStrides == {I64(1), Pow2_32}

InitResolve ==
    /\ kernel \in IndexKernels
    /\ iter_shape \in Shapes
    /\ num_dimensions = Len(iter_shape)
    /\ \E tid \in 0..(NumThreads(iter_shape) - 1) : grid = {tid}
    /\ \E l \in ResolveLayouts :
           strides = StrideTable(l[1], l[2], l[3], 1, iter_shape)
    /\ num_indices \in 0..MaxIndices
    /\ \E n \in {1, MaxIndexSize}, v \in 0..(2 * MaxIndexSize + 1), s \in ResolveIndexStrides :
           /\ num_indices = 0 => (n = 1 /\ v = 0 /\ s = I64(1))
           /\ v <= 2 * n + 1
           /\ index_sizes = SeqOf([i \in 1..num_indices |-> I64(n + i - 1)],
                                  1, num_indices)
           /\ indexArray = SeqOf([i \in 1..num_indices |->
                                     IndexPattern(v + i - 1, n + i - 1,
                                                  NumThreads(iter_shape))],
                                 1, num_indices)
           /\ index_strides = Fill(s, num_indices)
    /\ inputData = <<>>
    /\ outputData = <<>>
    /\ data_offsets = <<>>
    /\ NoLocals(grid)
    /\ hist = <<>>

\* lines 58-76 (and their copies in the other kernels) without the accesses
Resolve(t) ==
    /\ pc[t] = "start"
    /\ ResolveAddresses(t)
    /\ pc' = [pc EXCEPT ![t] = "resolved"]
    /\ UNCHANGED <<launch, inputData, outputData, data_offsets, val, dim, idx,
                   expected, updated, hist>>

NextResolve == \E t \in grid : Resolve(t)

SpecResolve == InitResolve /\ [][NextResolve]_vars

(***************************************************************************)
(* Properties of the address computation (SpecResolve)                     *)
(***************************************************************************)
Resolved(t) == pc[t] = "resolved"

\* the coordinate get_idx takes in dimension d: the x offset under the
\* stride table that is 1 in dimension d and 0 elsewhere
UnitStrides(d) ==
    SeqOf([k \in 1..num_dimensions |->
              <<U32(IF k = d THEN 1 ELSE 0), U32(0), U32(0)>>],
          1, num_dimensions)
Coord(t, d) == UVal(get_idx(t, iter_shape, num_dimensions, UnitStrides(d))[1])

RECURSIVE Recombine(_, _)
\* sum over dimensions 1..d of coord * product of the lower dimensions
Recombine(t, d) ==
    IF d = 0 THEN 0
    ELSE Coord(t, d) * Prod(iter_shape, d - 1) + Recombine(t, d - 1)

DenseX == \A d \in 1..num_dimensions : strides[d][1] = U32(Prod(iter_shape, d - 1))

\* C2: for a thread id t below product(iter_shape) the remainders taken by
\* get_idx lie in [0, iter_shape[d]) and recombine to t; with stride
\* component d equal to product(iter_shape[0..d)) the offset is t itself and
\* no other thread id of the grid gets the same offset.
C2_MixedRadixRoundTrip ==
    \A t \in grid : Resolved(t) =>
        /\ \A d \in 1..num_dimensions : Coord(t, d) \in 0..(iter_shape[d] - 1)
        /\ Recombine(t, num_dimensions) = t
        /\ DenseX =>
              /\ UVal(offsets[t][1]) = t
              /\ \A u \in 0..(NumThreads(iter_shape) - 1) :
                     u # t => get_idx(u, iter_shape, num_dimensions, strides)[1]
                                  # offsets[t][1]

C2_Witness ==
    \E t \in grid :
        /\ Resolved(t) /\ DenseX /\ num_dimensions = 2
        /\ Coord(t, 1) > 0 /\ Coord(t, 2) > 0

RawIndex(t, i) == indexArray[i][UVal(offsets[t][3]) \div SizeofInt64 + 1]

\* C3: in each of the four index kernels, a raw index -k with
\* 1 <= k <= N is used as N - k and one of [0, N) is used unchanged, so a raw
\* index of [-N, N) is used as a value of [0, N); N is added at most once, so
\* a raw index below -N stays negative.
C3_Wraparound ==
    \A t \in grid : Resolved(t) =>
        \A i \in 1..num_indices :
            LET x == SVal(RawIndex(t, i))
                n == SVal(index_sizes[i])
                used == SVal(index[t][i])
            IN  /\ (-n <= x /\ x < 0) => used = n + x
                /\ (0 <= x /\ x < n) => used = x
                /\ (-n <= x /\ x < n) => (0 <= used /\ used < n)
                /\ x < -n => (used = x + n /\ used < 0)

C3_Witness ==
    \E t \in grid :
        /\ Resolved(t) /\ num_indices >= 1 /\ kernel = Scatter
        /\ SVal(RawIndex(t, 1)) = -1 /\ SVal(index_sizes[1]) = 2
        /\ SVal(index[t][1]) = 1

RECURSIVE WideDirect(_, _, _)
\* sum over dimensions 1..d of remainder * strides[dim].c, not reduced
WideDirect(t, c, d) ==
    IF d = 0 THEN Digits(0, WideBytes)
    ELSE WAdd(WMul(Digits((t \div Prod(iter_shape, d - 1)) % iter_shape[d], WideBytes),
                   ZExt(strides[d][c], WideBytes)),
              WideDirect(t, c, d - 1))

RECURSIVE WideIndirect(_, _)
\* sum over indexed dimensions 1..i of index * index_strides, not reduced
WideIndirect(t, i) ==
    IF i = 0 THEN Digits(0, WideBytes)
    ELSE WAdd(WMul(SExt(index[t][i], WideBytes), SExt(index_strides[i], WideBytes)),
              WideIndirect(t, i - 1))

IndirectSide(t) == IF kernel = Gather THEN in[t] ELSE out[t]
DirectSide(t) == IF kernel = Gather THEN out[t] ELSE in[t]
IndirectComponent == IF kernel = Gather THEN 2 ELSE 1
DirectComponent == IF kernel = Gather THEN 1 ELSE 2

\* C10: each component of get_idx's result is the sum of remainder * stride
\* reduced modulo 2^32; the indirect offset is that sum of index *
\* index_strides as a 64-bit value, not reduced modulo 2^32, and it is added
\* to the zero-extended direct component in 64 bits on the input side of
\* index_select and on the output side of the three scatter kernels.
C10_OffsetWidths ==
    \A t \in grid : Resolved(t) =>
        /\ \A c \in 1..3 :
               offsets[t][c] = Trunc(WideDirect(t, c, num_dimensions), SizeofUint)
        /\ SExt(offset[t], WideBytes) = WideIndirect(t, num_indices)
        /\ IndirectSide(t) =
               Trunc(WAdd(ZExt(offsets[t][IndirectComponent], WideBytes),
                          WideIndirect(t, num_indices)), SizeofInt64)
        /\ DirectSide(t) = ZExt(offsets[t][DirectComponent], SizeofInt64)

\* a direct sum that wrapped and an indirect offset of 2^32 or more
C10_Witness ==
    \E t \in grid :
        /\ Resolved(t) /\ kernel = Scatter
        /\ WideDirect(t, 1, num_dimensions) # ZExt(offsets[t][1], WideBytes)
        /\ ~IsNeg(offset[t])
        /\ \E b \in (SizeofUint + 1)..SizeofInt64 : offset[t][b] # 0
        /\ \E b \in (SizeofUint + 1)..SizeofInt64 : out[t][b] # 0

(***************************************************************************)
(* kernel_index_offsets                                                    *)
(***************************************************************************)
\* data_offsets[thread_index] = 0;
index_offsets_init(slot) == Uint3Zero

\* `=` in place of `+=`
index_offsets_assign(slot, remainder, stride) == Uint3Scale(U32(remainder), stride)

\* data_offsets[thread_index] += remainder * strides[dim];
index_offsets_accumulate(slot, remainder, stride) ==
    Uint3Add(slot, Uint3Scale(U32(remainder), stride))

\* lines 170-171, and the first test of the loop condition
OffsetsEnter(t) ==
    /\ pc[t] = "start"
    /\ data_offsets' = [data_offsets EXCEPT ![t] = index_offsets_init(@)]
    /\ idx' = [idx EXCEPT ![t] = t]
    /\ dim' = [dim EXCEPT ![t] = 0]
    /\ pc' = [pc EXCEPT ![t] = IF 0 < num_dimensions THEN "loop" ELSE "done"]
    /\ UNCHANGED <<launch, inputData, outputData, offsets, index, offset, out,
                   in, val, expected, updated, hist>>

\* one iteration of the loop, lines 173-176, and the next test of its condition
OffsetsIterate(t) ==
    /\ pc[t] = "loop"
    /\ LET remainder == idx[t] % iter_shape[dim[t] + 1]
       IN  /\ idx' = [idx EXCEPT ![t] = @ \div iter_shape[dim[t] + 1]]
           /\ data_offsets' = [data_offsets EXCEPT ![t] =
                  index_offsets_accumulate(@, remainder, strides[dim[t] + 1])]
    /\ dim' = [dim EXCEPT ![t] = @ + 1]
    /\ pc' = [pc EXCEPT ![t] = IF dim[t] + 1 < num_dimensions THEN "loop" ELSE "done"]
    /\ UNCHANGED <<launch, inputData, outputData, offsets, index, offset, out,
                   in, val, expected, updated, hist>>

\* the scenario of a 5-element vector with stride (1, 0, 0)
ScenarioShape == <<5>>
OffsetsLayouts == {<<"dense", "zero", "zero">>, <<"huge", "dense", "dense">>}
\* what the output array holds before the launch
PriorOffsets(g) ==
    {[t \in g |-> Uint3Zero], [t \in g |-> <<U32(7 + t), Pow2_31, U32(1)>>]}

NoIndices ==
    /\ num_indices = 0
    /\ indexArray = <<>>
    /\ index_sizes = <<>>
    /\ index_strides = <<>>

InitOffsets ==
    /\ kernel = OffsetsKernel
    /\ iter_shape \in Shapes \cup {ScenarioShape}
    /\ num_dimensions = Len(iter_shape)
    /\ grid = 0..(NumThreads(iter_shape) - 1)
    /\ \E l \in OffsetsLayouts :
           strides = StrideTable(l[1], l[2], l[3], 1, iter_shape)
    /\ NoIndices
    /\ inputData = <<>>
    /\ outputData = <<>>
    /\ data_offsets \in PriorOffsets(grid)
    /\ NoLocals(grid)
    /\ hist = <<>>

NextOffsets == \E t \in grid : OffsetsEnter(t) \/ OffsetsIterate(t)

SpecOffsets == InitOffsets /\ [][NextOffsets]_vars

Done(t) == pc[t] = "done"
AllDone == \A t \in grid : Done(t)

\* C6: once thread t of kernel_index_offsets has finished, data_offsets[t] is
\* get_idx(t, iter_shape, num_dimensions, strides), whatever the slot held
\* before and wherever the other threads are; shape [5] with stride (1,0,0)
\* yields x components 0..4 and num_dimensions = 0 the zero vector.
C6_OffsetsKernelAgrees ==
    /\ \A t \in grid : Done(t) =>
           data_offsets[t] = get_idx(t, iter_shape, num_dimensions, strides)
    /\ (AllDone /\ iter_shape = ScenarioShape /\ DenseX) =>
           \A t \in 0..4 : UVal(data_offsets[t][1]) = t
    /\ \A t \in grid : (Done(t) /\ num_dimensions = 0) => data_offsets[t] = Uint3Zero

\* thread 3 of a rank-2 launch has finished over a slot that held other
\* values, while thread 0 has not started
C6_Witness ==
    /\ num_dimensions = 2 /\ 3 \in grid
    /\ Done(3) /\ pc[0] = "start"
    /\ data_offsets[0] # Uint3Zero
    /\ data_offsets[3] # Uint3Zero

(***************************************************************************)
(* index_select and index_put, instantiated for a one-byte element         *)
(* (index_select_8bit, index_put_8bit): byte offsets are element offsets.  *)
(* `*out = *in` is a load followed by a store; a store of one element is   *)
(* one step.                                                               *)
(***************************************************************************)
\* history: which threads have stored to each output address, which did so
\* last, and the buffers as they were when the launch began
StoreHistory(t) ==
    [hist EXCEPT !.writers[UVal(out[t])] = @ \cup {t},
                 !.last[UVal(out[t])] = t]

CopyLoad(t) ==
    /\ pc[t] = "start"
    /\ ResolveAddresses(t)
    /\ val' = [val EXCEPT ![t] = inputData[UVal(in'[t])]]
    /\ pc' = [pc EXCEPT ![t] = "loaded"]
    /\ UNCHANGED <<launch, inputData, outputData, data_offsets, dim, idx,
                   expected, updated, hist>>

CopyStore(t) ==
    /\ pc[t] = "loaded"
    /\ outputData' = [outputData EXCEPT ![UVal(out[t])] = val[t]]
    /\ hist' = StoreHistory(t)
    /\ pc' = [pc EXCEPT ![t] = "done"]
    /\ UNCHANGED <<launch, inputData, data_offsets, offsets, index, offset, out,
                   in, val, dim, idx, expected, updated>>

\* index_select, lines 58-77
index_select_load(t) == kernel = Gather /\ CopyLoad(t)
index_select_store(t) == kernel = Gather /\ CopyStore(t)

\* index_put, lines 99-120
index_put_load(t) == kernel = Scatter /\ CopyLoad(t)
index_put_store(t) == kernel = Scatter /\ CopyStore(t)

\* the highest byte offset a validated launch can resolve: a dense direct
\* offset plus, per indexed dimension, (size - 1) times an index stride of 2
MemTop == (MaxThreads - 1) + 2 * (MaxIndexSize - 1) * MaxIndices

CopyLayouts ==
    {<<"dense", "dense", "dense">>, <<"zero", "dense", "dense">>,
     <<"dense", "dense", "zero">>, <<"zero", "dense", "zero">>}

\* An index array of `len` entries for an indexed dimension of size n whose
\* entries are valid indices: entry j holds ((v + j) mod 2n) - n.
ValidIndexPattern(v, n, len) ==
    SeqOf([j \in 1..len |-> I64(((v + j) % (2 * n)) - n)], 1, len)

CopyIndexStrides == {I64(1), I64(2)}

\* iteration shapes without dimensions of one element (which add nothing to
\* an offset); rank 0 is the launch of a single thread
CopyShapes == {s \in Shapes : \A d \in 1..Len(s) : s[d] >= 2}

FreshHistory ==
    [writers |-> [a \in DOMAIN outputData |-> {}],
     last |-> [a \in DOMAIN outputData |-> -1],
     out0 |-> outputData,
     source |-> inputData,
     launches |-> 1]

\* A validated launch of index_select or index_put: every index lies in
\* [-size, size), and the buffers cover every address a thread resolves.
InitCopy(k) ==
    /\ kernel = k
    /\ iter_shape \in CopyShapes
    /\ num_dimensions = Len(iter_shape)
    /\ grid = 0..(NumThreads(iter_shape) - 1)
    /\ \E l \in CopyLayouts :
           strides = StrideTable(l[1], l[2], l[3], 1, iter_shape)
    /\ num_indices \in 0..MaxIndices
    /\ \E v \in 0..(2 * MaxIndexSize - 1), s \in CopyIndexStrides :
           /\ num_indices = 0 => (v = 0 /\ s = I64(1))
           /\ index_sizes = Fill(I64(MaxIndexSize), num_indices)
           /\ indexArray = SeqOf([i \in 1..num_indices |->
                                     ValidIndexPattern(v + i - 1, MaxIndexSize,
                                                       NumThreads(iter_shape))],
                                 1, num_indices)
           /\ index_strides = Fill(s, num_indices)
    /\ inputData = [a \in 0..MemTop |-> 10 + a]
    /\ outputData = [a \in 0..MemTop |-> 100 + a]
    /\ data_offsets = <<>>
    /\ NoLocals(grid)
    /\ hist = FreshHistory

InitSelect == InitCopy(Gather)
NextSelect == \E t \in grid : index_select_load(t) \/ index_select_store(t)
SpecSelect == InitSelect /\ [][NextSelect]_vars

InitPut == InitCopy(Scatter)
NextPut == \E t \in grid : index_put_load(t) \/ index_put_store(t)
SpecPut == InitPut /\ [][NextPut]_vars

\* The gather launched after a scatter has finished, as the inverse of it:
\* same grid, index tables, index_sizes and index_strides, the scattered
\* buffer as input, a fresh output, and the first two stride components
\* exchanged.
Relaunch ==
    /\ kernel = Scatter
    /\ \A t \in grid : pc[t] = "done"
    /\ kernel' = Gather
    /\ strides' = SeqOf([d \in 1..num_dimensions |->
                            <<strides[d][2], strides[d][1], strides[d][3]>>],
                        1, num_dimensions)
    /\ inputData' = outputData
    /\ outputData' = [a \in 0..MemTop |-> 200 + a]
    /\ hist' = [writers |-> [a \in 0..MemTop |-> {}],
                last |-> [a \in 0..MemTop |-> -1],
                out0 |-> [a \in 0..MemTop |-> 200 + a],
                source |-> hist.source,
                launches |-> 2]
    /\ pc' = [t \in grid |-> "start"]
    /\ offsets' = [t \in grid |-> Uint3Zero]
    /\ index' = [t \in grid |-> <<>>]
    /\ offset' = [t \in grid |-> I64(0)]
    /\ out' = [t \in grid |-> I64(0)]
    /\ in' = [t \in grid |-> I64(0)]
    /\ val' = [t \in grid |-> 0]
    /\ UNCHANGED <<grid, iter_shape, num_dimensions, num_indices, indexArray,
                   index_sizes, index_strides, data_offsets, dim, idx, expected,
                   updated>>

NextPutSelect ==
    \/ \E t \in grid : index_put_load(t) \/ index_put_store(t)
    \/ Relaunch
    \/ \E t \in grid : index_select_load(t) \/ index_select_store(t)

SpecPutSelect == InitPut /\ [][NextPutSelect]_vars

(***************************************************************************)
(* Properties of index_select and index_put.  The addresses the properties *)
(* speak of are written out in unbounded integers.                         *)
(***************************************************************************)
RECURSIVE DirectSum(_, _, _)
\* sum over dimensions 1..d of coordinate * strides[dim].c
DirectSum(t, c, d) ==
    IF d = 0 THEN 0
    ELSE ((t \div Prod(iter_shape, d - 1)) % iter_shape[d]) * UVal(strides[d][c])
         + DirectSum(t, c, d - 1)

Direct(t, c) == DirectSum(t, c, num_dimensions)

Normalized(x, n) == IF x < 0 THEN x + n ELSE x

RECURSIVE IndirectSum(_, _)
\* sum over indexed dimensions 1..i of normalized index * index_strides
IndirectSum(t, i) ==
    IF i = 0 THEN 0
    ELSE Normalized(SVal(indexArray[i][Direct(t, 3) \div SizeofInt64 + 1]),
                    SVal(index_sizes[i])) * SVal(index_strides[i])
         + IndirectSum(t, i - 1)

Indirect(t) == IndirectSum(t, num_indices)

\* C5 as stated: in a gather launch no two threads write the same output
\* address, so no address is written more than once.
C5_UniqueTargetsAlways ==
    kernel = Gather =>
        /\ \A t, u \in grid : (t # u /\ Done(t) /\ Done(u)) => out[t] # out[u]
        /\ \A a \in DOMAIN outputData : Cardinality(hist.writers[a]) <= 1

\* C5, amended: when the x components of strides are the contiguous layout
\* of iter_shape, no output address of a gather launch is the target of two
\* threads, and none is written more than once; each thread stores to
\* offsets.x.
C5_UniqueTargetsWhenDense ==
    (kernel = Gather /\ DenseX) =>
        /\ \A t, u \in grid : t # u => Direct(t, 1) # Direct(u, 1)
        /\ \A a \in DOMAIN outputData : Cardinality(hist.writers[a]) <= 1
        /\ \A t \in grid : Done(t) => hist.writers[Direct(t, 1)] = {t}

C5_Witness ==
    /\ kernel = Gather /\ DenseX /\ AllDone
    /\ Cardinality(grid) >= 3 /\ num_indices >= 1
    /\ \E t \in grid : Indirect(t) > 0

Dest(t) == Direct(t, 1) + Indirect(t)
Writers(a) == {t \in grid : Dest(t) = a}

\* C7: after a launch of index_put, an output address that is the
\* destination offsets.x + offset of a non-empty set W of threads holds the
\* input element of the member of W that stored last, and every other output
\* address holds what it held before the launch.
C7_LastWriterWins ==
    (kernel = Scatter /\ AllDone) =>
        \A a \in DOMAIN outputData :
            IF Writers(a) = {}
            THEN outputData[a] = hist.out0[a]
            ELSE /\ hist.writers[a] = Writers(a)
                 /\ hist.last[a] \in Writers(a)
                 /\ outputData[a] = inputData[Direct(hist.last[a], 2)]

\* three threads scattered to one address and the lowest of them stored
\* last; another address was nobody's destination
C7_Witness ==
    /\ kernel = Scatter /\ AllDone
    /\ \E a \in DOMAIN outputData :
           /\ Cardinality(Writers(a)) >= 3
           /\ \A t \in Writers(a) : hist.last[a] <= t
           /\ outputData[a] = inputData[Direct(hist.last[a], 2)]
           /\ \A t \in Writers(a) \ {hist.last[a]} :
                  inputData[Direct(t, 2)] # outputData[a]
    /\ \E a \in DOMAIN outputData : Writers(a) = {}

\* in the gather that follows the scatter, the scatter's destination of
\* thread t is the gather's read address: component 2 plus the indirect offset
ScatterDest(t) == Direct(t, 2) + Indirect(t)
InjectiveScatter == \A t, u \in grid : t # u => ScatterDest(t) # ScatterDest(u)

\* C4: when the scatter's map from thread to destination is injective, the
\* gather launched over the scattered buffer with the same indices and the
\* first two stride components exchanged writes, at the source offset of
\* each thread t, the source element that thread t scattered.
C4_ScatterThenGather ==
    (hist.launches = 2 /\ InjectiveScatter) =>
        \A t \in grid :
            /\ inputData[ScatterDest(t)] = hist.source[Direct(t, 1)]
            /\ Done(t) => outputData[Direct(t, 1)] = hist.source[Direct(t, 1)]

C4_Witness ==
    /\ hist.launches = 2 /\ InjectiveScatter /\ AllDone
    /\ Cardinality(grid) >= 3 /\ num_indices >= 1
    /\ \E t, u \in grid : Indirect(t) > Indirect(u)
    /\ \E t \in grid : ScatterDest(t) # Direct(t, 1)

(***************************************************************************)
(* float: the non-negative integer-valued floats, each held as the integer *)
(* it denotes.  as_type<uint> gives the IEEE-754 binary32 bit pattern and  *)
(* as_type<float> reads one back; + rounds to nearest, ties to even.       *)
(***************************************************************************)
RECURSIVE Pow2(_)
Pow2(k) == IF k = 0 THEN 1 ELSE 2 * Pow2(k - 1)

RECURSIVE Log2(_)
\* floor of the binary logarithm of n >= 1
Log2(n) == IF n < 2 THEN 0 ELSE 1 + Log2(n \div 2)

MantissaBits == 23
ExponentBias == 127

FloatBits(f) ==
    IF f = 0 THEN U32(0)
    ELSE The({U32((e + ExponentBias) * Pow2(MantissaBits)
                  + ((IF e <= MantissaBits THEN f * Pow2(MantissaBits - e)
                      ELSE f \div Pow2(e - MantissaBits)) - Pow2(MantissaBits)))
              : e \in {Log2(f)}})

as_type_uint(f) == The({FloatBits(x) : x \in {f}})

BitsFloat(b) ==
    IF b = 0 THEN 0
    ELSE LET e == (b \div Pow2(MantissaBits)) - ExponentBias
             m == Pow2(MantissaBits) + (b % Pow2(MantissaBits))
         IN  IF e >= MantissaBits THEN m * Pow2(e - MantissaBits)
             ELSE m \div Pow2(MantissaBits - e)

as_type_float(u) == The({BitsFloat(b) : b \in {UVal(u)}})

\* the binary32 nearest to the integer n, ties to even
RoundToQuantum(n, q) ==
    LET lo == (n \div q) * q
        r == n - lo
    IN  IF 2 * r < q THEN lo
        ELSE IF 2 * r > q THEN lo + q
        ELSE IF (n \div q) % 2 = 0 THEN lo ELSE lo + q

RoundToFloat(n) ==
    IF n < Pow2(MantissaBits + 1) THEN n
    ELSE The({RoundToQuantum(n, q) : q \in {Pow2(Log2(n) - MantissaBits)}})

float_add(x, y) == The({RoundToFloat(s) : s \in {x + y}})

(***************************************************************************)
(* The accumulating scatters.  Buffers hold 4-byte slots at byte offsets:  *)
(* int words for index_put_accumulate_native_dtypes<atomic_int, int>, the  *)
(* float (input) and its bit pattern (atomic_uint output slot) for         *)
(* atomic_index_put_accumulate<float>.                                     *)
(***************************************************************************)
MaxAccThreads == 2
MaxSpurious == 1

\* lines 196-213 / 243-260: the addresses and `*in`
AccLoad(t) ==
    /\ pc[t] = "start"
    /\ ResolveAddresses(t)
    /\ val' = [val EXCEPT ![t] = inputData[UVal(in'[t])]]
    /\ pc' = [pc EXCEPT ![t] = "loaded"]
    /\ UNCHANGED <<launch, inputData, outputData, data_offsets, dim, idx,
                   expected, updated, hist>>

\* atomic_fetch_add_explicit on atomic_int: two's complement, wraps
native_fetch_add(old, v) == WAdd(old, v)

\* line 214: atomic_fetch_add_explicit(out, *in, memory_order_relaxed)
index_put_accumulate_native(t) ==
    /\ kernel = NativeAcc
    /\ pc[t] = "loaded"
    /\ outputData' = [outputData EXCEPT ![UVal(out[t])] = native_fetch_add(@, val[t])]
    /\ hist' = [hist EXCEPT !.applied = Append(@, t)]
    /\ pc' = [pc EXCEPT ![t] = "done"]
    /\ UNCHANGED <<launch, inputData, data_offsets, offsets, index, offset, out,
                   in, val, dim, idx, expected, updated>>

index_put_accumulate_native_load(t) == kernel = NativeAcc /\ AccLoad(t)
atomic_index_put_accumulate_load(t) == kernel = AtomicAcc /\ AccLoad(t)

\* the sum a compare-exchange attempt offers, from the thread's expected
cas_desired(exp, v) == float_add(as_type_float(exp), v)

\* a plain store in place of the compare-exchange: the comparison is lost
cas_unconditional(current, exp) == TRUE

\* atomic_compare_exchange_weak_explicit compares the slot with `expected`
cas_compares_equal(current, exp) == current = exp

\* a failed exchange that leaves `expected` as it was
cas_keep_expected(exp, current) == exp

\* a failed exchange writes the slot's value into `expected`
cas_write_back(exp, current) == current

\* lines 219-221: the relaxed load and the first sum
fetch_add_relaxed_load(t) ==
    /\ kernel = AtomicAcc
    /\ pc[t] = "loaded"
    /\ expected' = [expected EXCEPT ![t] = outputData[UVal(out[t])]]
    /\ updated' = [updated EXCEPT ![t] = cas_desired(outputData[UVal(out[t])], val[t])]
    /\ hist' = [hist EXCEPT !.observed[t] = outputData[UVal(out[t])],
                            !.changed[t] = {}]
    /\ pc' = [pc EXCEPT ![t] = "cas"]
    /\ UNCHANGED <<launch, inputData, outputData, data_offsets, offsets, index,
                   offset, out, in, val, dim, idx>>

\* line 222, the exchange taking place: the slot holds `expected`
fetch_add_relaxed_cas_success(t) ==
    /\ kernel = AtomicAcc
    /\ pc[t] = "cas"
    /\ cas_compares_equal(outputData[UVal(out[t])], expected[t])
    /\ outputData' = [outputData EXCEPT ![UVal(out[t])] = as_type_uint(updated[t])]
    /\ hist' = [hist EXCEPT
                   !.applied = Append(@, t),
                   !.successes[t] = @ + 1,
                   !.changed = [u \in grid |->
                                   IF u # t /\ out[u] = out[t] /\ pc[u] \in {"cas", "retry"}
                                   THEN @[u] \cup {t} ELSE @[u]]]
    /\ pc' = [pc EXCEPT ![t] = "done"]
    /\ UNCHANGED <<launch, inputData, data_offsets, offsets, index, offset, out,
                   in, val, dim, idx, expected, updated>>

\* line 222, the exchange failing because the slot holds another value:
\* that value is written back into `expected`
fetch_add_relaxed_cas_failure(t) ==
    /\ kernel = AtomicAcc
    /\ pc[t] = "cas"
    /\ ~cas_compares_equal(outputData[UVal(out[t])], expected[t])
    /\ expected' = [expected EXCEPT ![t] = cas_write_back(@, outputData[UVal(out[t])])]
    /\ hist' = [hist EXCEPT !.observed[t] = outputData[UVal(out[t])],
                            !.failures[t] = IF @ < MaxAccThreads THEN @ + 1 ELSE @,
                            !.caused[t] = @ /\ (hist.changed[t] # {}),
                            !.changed[t] = {}]
    /\ pc' = [pc EXCEPT ![t] = "retry"]
    /\ UNCHANGED <<launch, inputData, outputData, data_offsets, offsets, index,
                   offset, out, in, val, dim, idx, updated>>

\* line 222, the weak exchange failing although the slot holds `expected`
fetch_add_relaxed_cas_spurious(t) ==
    /\ kernel = AtomicAcc
    /\ pc[t] = "cas"
    /\ cas_compares_equal(outputData[UVal(out[t])], expected[t])
    /\ hist.spurious[t] < MaxSpurious
    /\ expected' = [expected EXCEPT ![t] = cas_write_back(@, outputData[UVal(out[t])])]
    /\ hist' = [hist EXCEPT !.observed[t] = outputData[UVal(out[t])],
                            !.spurious[t] = @ + 1,
                            !.changed[t] = {}]
    /\ pc' = [pc EXCEPT ![t] = "retry"]
    /\ UNCHANGED <<launch, inputData, outputData, data_offsets, offsets, index,
                   offset, out, in, val, dim, idx, updated>>

\* the loop body that keeps the first sum
fetch_add_relaxed_stale(upd, exp, v) == upd

\* line 223: updated = as_type<T>(expected) + value
fetch_add_relaxed_recompute(upd, exp, v) == cas_desired(exp, v)

fetch_add_relaxed_retry(t) ==
    /\ kernel = AtomicAcc
    /\ pc[t] = "retry"
    /\ updated' = [updated EXCEPT ![t] =
                      fetch_add_relaxed_recompute(@, expected[t], val[t])]
    /\ pc' = [pc EXCEPT ![t] = "cas"]
    /\ UNCHANGED <<launch, inputData, outputData, data_offsets, offsets, index,
                   offset, out, in, val, dim, idx, expected, hist>>

\* the elements of the two accumulate instantiations
IntMax == <<255, 255, 255, 127>>
Pow2_24 == Pow2(MantissaBits + 1)
NativeValues == <<IntMax, U32(1), U32(-1)>>
FloatValues == <<2, 1, Pow2_24>>
SizeofElement == 4

\* How the threads map to destinations: <<x layout, z layout, number of
\* indexed dimensions, first entry of the index pattern>>.  All threads on one
\* slot; each on its own; two groups chosen through the index array.
AccMappings ==
    {<<"zero", "zero", 0, 0>>, <<"dense", "zero", 0, 0>>,
     <<"zero", "dense", 1, 1>>, <<"zero", "dense", 1, 2>>}

AccHistory(g) ==
    [applied |-> <<>>,
     out0 |-> outputData,
     observed |-> [t \in g |-> <<>>],
     changed |-> [t \in g |-> {}],
     caused |-> [t \in g |-> TRUE],
     failures |-> [t \in g |-> 0],
     spurious |-> [t \in g |-> 0],
     successes |-> [t \in g |-> 0]]

\* A validated launch of an accumulate kernel over K threads: slots of 4
\* bytes, one indexed dimension of size 2 at most, indices of [-2, 2).
InitAcc ==
    /\ kernel \in {NativeAcc, AtomicAcc}
    /\ \E k \in 1..MaxAccThreads : iter_shape = <<k>>
    /\ num_dimensions = 1
    /\ grid = 0..(NumThreads(iter_shape) - 1)
    /\ \E m \in AccMappings :
           /\ strides = StrideTable(m[1], "dense", m[2], SizeofElement, iter_shape)
           /\ num_indices = m[3]
           /\ index_sizes = Fill(I64(2), num_indices)
           /\ indexArray = Fill(ValidIndexPattern(m[4], 2, NumThreads(iter_shape)),
                                num_indices)
           /\ index_strides = Fill(I64(SizeofElement), num_indices)
    /\ inputData = [a \in {SizeofElement * j : j \in 0..(MaxAccThreads - 1)} |->
                       IF kernel = NativeAcc
                       THEN NativeValues[((a \div SizeofElement) % 3) + 1]
                       ELSE FloatValues[((a \div SizeofElement) % 3) + 1]]
    /\ \E d0 \in {0, 1} :
           outputData = [a \in {SizeofElement * j : j \in 0..MaxAccThreads} |->
                           IF kernel = NativeAcc
                           THEN (IF d0 = 0 THEN U32(0) ELSE IntMax)
                           ELSE as_type_uint(IF d0 = 0 THEN 0 ELSE Pow2_24)]
    /\ data_offsets = <<>>
    /\ NoLocals(grid)
    /\ hist = AccHistory(grid)

AccStep(t) ==
    \/ index_put_accumulate_native_load(t)
    \/ index_put_accumulate_native(t)
    \/ atomic_index_put_accumulate_load(t)
    \/ fetch_add_relaxed_load(t)
    \/ fetch_add_relaxed_cas_success(t)
    \/ fetch_add_relaxed_cas_failure(t)
    \/ fetch_add_relaxed_cas_spurious(t)
    \/ fetch_add_relaxed_retry(t)

NextAcc == \E t \in grid : AccStep(t)

SpecAcc == InitAcc /\ [][NextAcc]_vars

\* Threads of a launch are scheduled until they finish: each thread that can
\* take a step eventually takes one.
FairAcc ==
    /\ SpecAcc
    /\ \A t \in 0..(MaxAccThreads - 1) : WF_vars(t \in grid /\ AccStep(t))

(***************************************************************************)
(* Properties of the accumulating scatters                                 *)
(***************************************************************************)
Src(t) == Direct(t, 2)

\* the element type's addition on memory slots
SlotAdd(slot, v) ==
    IF kernel = NativeAcc THEN WAdd(slot, v)
    ELSE as_type_uint(float_add(as_type_float(slot), v))

RECURSIVE FoldApplied(_, _)
\* the slot at address a after the first i updates of the launch, applied one
\* after the other
FoldApplied(a, i) ==
    IF i = 0 THEN hist.out0[a]
    ELSE LET t == hist.applied[i]
             prev == FoldApplied(a, i - 1)
         IN  IF Dest(t) = a THEN SlotAdd(prev, inputData[Src(t)]) ELSE prev

RECURSIVE WideSumUpTo(_, _)
\* initial slot plus the int inputs of the threads 0..n-1 scattering to a
WideSumUpTo(a, n) ==
    IF n = 0 THEN SExt(hist.out0[a], WideBytes)
    ELSE IF Dest(n - 1) = a
         THEN WAdd(WideSumUpTo(a, n - 1), SExt(inputData[Src(n - 1)], WideBytes))
         ELSE WideSumUpTo(a, n - 1)

RECURSIVE RealSumUpTo(_, _)
\* initial float plus the float inputs of the threads 0..n-1 scattering to a
RealSumUpTo(a, n) ==
    IF n = 0 THEN as_type_float(hist.out0[a])
    ELSE IF Dest(n - 1) = a
         THEN RealSumUpTo(a, n - 1) + inputData[Src(n - 1)]
         ELSE RealSumUpTo(a, n - 1)

NumGrid == Cardinality(grid)
AppliedOnce ==
    \A i, j \in 1..Len(hist.applied) : i # j => hist.applied[i] # hist.applied[j]

\* C1 as stated: once all threads have finished, every destination holds the
\* initial value plus the sum of the values scattered to it, in every
\* interleaving (read as generously as the element type allows: the int sum
\* modulo 2^32, the float nearest to the sum).
C1_ExactSum ==
    AllDone =>
        \A a \in DOMAIN outputData :
            IF kernel = NativeAcc
            THEN outputData[a] = Trunc(WideSumUpTo(a, NumGrid), SizeofUint)
            ELSE as_type_float(outputData[a]) = RoundToFloat(RealSumUpTo(a, NumGrid))

\* C1, amended: every destination holds the result of adding, one after the
\* other in the order of the threads' atomic updates, the values scattered to
\* it, each exactly once, with the element type's addition.  For int that is
\* the sum modulo 2^32 in every interleaving; for float it is the sum itself
\* whenever the sum does not exceed 2^24 (every partial sum is then a float).
C1_EachUpdateOnce ==
    /\ AppliedOnce
    /\ \A a \in DOMAIN outputData :
           outputData[a] = FoldApplied(a, Len(hist.applied))
    /\ AllDone =>
           /\ {hist.applied[i] : i \in 1..Len(hist.applied)} = grid
           /\ \A a \in DOMAIN outputData :
                  IF kernel = NativeAcc
                  THEN outputData[a] = Trunc(WideSumUpTo(a, NumGrid), SizeofUint)
                  ELSE RealSumUpTo(a, NumGrid) <= Pow2_24
                           => as_type_float(outputData[a]) = RealSumUpTo(a, NumGrid)

\* two threads of the emulated path accumulated into one slot, one of them
\* after a failed compare-exchange, and the sum is exact
C1_Witness ==
    /\ kernel = AtomicAcc /\ AllDone
    /\ \E a \in DOMAIN outputData :
           /\ Cardinality(Writers(a)) >= 2
           /\ \E t \in Writers(a) : hist.failures[t] >= 1
           /\ as_type_float(outputData[a]) = RealSumUpTo(a, NumGrid)
           /\ as_type_float(outputData[a]) > as_type_float(hist.out0[a])

\* C8: whenever a thread of atomic_fetch_add_relaxed is about to attempt the
\* compare-exchange, the value it offers is its current `expected` plus its
\* input value, and `expected` is what the thread last observed at the
\* address (the initial load or the write-back of its last failed exchange);
\* a thread has finished exactly when it has had its one successful exchange.
C8_SumFromLatestExpected ==
    kernel = AtomicAcc =>
        \A t \in grid :
            /\ pc[t] = "cas" =>
                   updated[t] = float_add(as_type_float(expected[t]), val[t])
            /\ pc[t] \in {"cas", "retry"} => expected[t] = hist.observed[t]
            /\ hist.successes[t] = IF Done(t) THEN 1 ELSE 0

\* a thread is about to retry with a sum recomputed from a value another
\* thread wrote
C8_Witness ==
    /\ kernel = AtomicAcc
    /\ \E t \in grid :
           /\ pc[t] = "cas" /\ hist.failures[t] >= 1
           /\ expected[t] # hist.out0[UVal(out[t])]
           /\ updated[t] # float_add(as_type_float(hist.out0[UVal(out[t])]), val[t])

\* no thread has failed a compare-exchange more often, spurious failures
\* aside, than there are other threads on its address, and every such failure
\* followed another thread's successful exchange on that address
FailuresBounded ==
    kernel = AtomicAcc =>
        \A t \in grid :
            /\ hist.failures[t] <= Cardinality(Writers(Dest(t))) - 1
            /\ hist.caused[t]
            /\ (pc[t] = "cas" /\ outputData[UVal(out[t])] # expected[t]) =>
                   (hist.changed[t] # {} /\ hist.changed[t] \subseteq Writers(Dest(t)) \ {t})

\* C9: in a launch of K threads a thread fails its compare-exchange at most
\* K-1 times for a reason other than a spurious failure, each time after
\* another thread's successful exchange; with every thread scheduled fairly
\* and finitely many spurious failures per thread, all threads finish.
C9_LockFreeTermination == []FailuresBounded /\ <>[]AllDone

\* a thread has finished after one spurious and one other failure
C9_Witness ==
    /\ kernel = AtomicAcc
    /\ \E t \in grid : Done(t) /\ hist.spurious[t] >= 1 /\ hist.failures[t] >= 1

====
